---- MODULE Spec2Model ----
(***************************************************************************)
(* AppleBBCH81 dataset utilities: the split generator                      *)
(* (scripts/generate_splits.py), the batch YOLO->COCO converter            *)
(* (scripts/convert_to_coco.py) and the single-image variant               *)
(* (generate_individual_annotations.py).                                   *)
(*                                                                         *)
(* A behaviour is one run of one of the three programs; `prog` says which. *)
(* Ratios are exact rationals in units of 1e-7 (RatioOne is 1.0), so the   *)
(* 1e-6 tolerance is RatioTol units.  Normalised box coordinates are in    *)
(* tenths and pixel quantities in twentieths of a pixel, so that w*W and   *)
(* (w*W)/2 are exact.                                                      *)
(***************************************************************************)
EXTENDS Integers, Sequences, FiniteSets, TLC

VARIABLES prog, pc, dirExists, imageStems,
          trainRatio, valRatio, testRatio, seed, globalRng,
          stems, train, val, test, again, globalUsed, outFiles,
          splitsLeft, filter, imagePaths, imgIdx, images, annotations,
          nextAnnId, curLabel, lastDecode

splitVars == <<trainRatio, valRatio, testRatio, seed, globalRng,
               stems, train, val, test, again, globalUsed>>
convVars == <<splitsLeft, filter, imagePaths, imgIdx, images, annotations,
              nextAnnId, curLabel, lastDecode>>
vars == <<prog, pc, dirExists, imageStems, splitVars, outFiles, convVars>>

(***************************************************************************)
(* Bounds                                                                  *)
(***************************************************************************)
MaxStems == 3
MaxSeed == 1
MaxImages == 2
MaxSplits == 2

(***************************************************************************)
(* Program constants                                                       *)
(***************************************************************************)
RatioOne == 10000000
RatioTol == 10
RngMod == 8

Ratios == {0, 5, 1000000, 2000000, 3000000, 5000000, 8000000}

(***************************************************************************)
(* Sequence helpers                                                        *)
(***************************************************************************)
Range(s) == {s[i] : i \in DOMAIN s}

NoDup(s) == \A i, j \in DOMAIN s : i # j => s[i] # s[j]

Min(a, b) == IF a < b THEN a ELSE b

\* Python slice s[lo:hi] for 0 <= lo, 0 <= hi (0-based, hi exclusive, both
\* clamped to len(s)).
Slice(s, lo, hi) ==
    LET l == Min(lo, Len(s))
        h == Min(hi, Len(s))
    IN  IF h <= l THEN <<>> ELSE SubSeq(s, l + 1, h)

RECURSIVE SortedSeq(_)
\* sorted(...) of a set of distinct names (names are ordered as integers)
SortedSeq(S) ==
    IF S = {} THEN <<>>
    ELSE LET m == CHOOSE x \in S : \A y \in S : x <= y
         IN  <<m>> \o SortedSeq(S \ {m})

(***************************************************************************)
(* generate_splits.py                                                      *)
(***************************************************************************)
\* stems = [p.stem for p in images_dir.glob("*.jpg")]; sorted(stems).
\* glob over a directory that does not exist yields nothing.
_collect_image_stems(exists, names) ==
    IF exists THEN SortedSeq(names) ELSE <<>>

\* the check without abs(): a sum below 1.0 passes
RatiosInvalidNoAbs(tr, vr, te) == (tr + vr + te) - RatioOne > RatioTol

\* abs((train + val + test) - 1.0) > 1e-6
RatiosInvalid(tr, vr, te) ==
    LET d == (tr + vr + te) - RatioOne
    IN  (IF d < 0 THEN -d ELSE d) > RatioTol

\* rounding halves up, as int(n * ratio + 0.5) does
PyRoundHalfUp(n, ratio) == (2 * n * ratio + RatioOne) \div (2 * RatioOne)

\* int(round(n * ratio)): round half to even
PyRound(n, ratio) ==
    LET p == n * ratio
        q == p \div RatioOne
        r == p % RatioOne
    IN  IF 2 * r < RatioOne THEN q
        ELSE IF 2 * r > RatioOne THEN q + 1
        ELSE IF q % 2 = 0 THEN q ELSE q + 1

\* random.Random(seed): the generator state determined by the seed
RngSeed(s) == (7 * s + 1) % RngMod

\* one step of the generator
RngNext(s) == (5 * s + 3) % RngMod

Swap(x, i, j) == [x EXCEPT ![i] = x[j], ![j] = x[i]]

RECURSIVE ShuffleFrom(_, _, _)
\* rng.shuffle(x): for i in reversed(range(1, len(x))): j = randbelow(i + 1);
\* x[i], x[j] = x[j], x[i]       (i is the 0-based index; i+1 its position)
ShuffleFrom(x, i, s) ==
    IF i < 1 THEN x
    ELSE LET s1 == RngNext(s)
             j == s1 % (i + 1)
         IN  ShuffleFrom(Swap(x, i + 1, j + 1), i - 1, s1)

Shuffle(x, s) == ShuffleFrom(x, Len(x) - 1, s)

\* shuffling with the process-wide generator (random.shuffle) instead
SplitRngGlobal(sd, global) == global

\* the generator a call of _split_stems shuffles with: a fresh one, seeded
SplitRng(sd, global) == RngSeed(sd)

\* val sliced as shuffled[n_train : n_val], the offset forgotten
SplitSlicesValEnd(shuffled, n_train, n_val) ==
    [train |-> Slice(shuffled, 0, n_train),
     val   |-> Slice(shuffled, n_train, n_val),
     test  |-> Slice(shuffled, n_train + n_val, Len(shuffled))]

\* the three slices of the shuffled list
SplitSlices(shuffled, n_train, n_val) ==
    [train |-> Slice(shuffled, 0, n_train),
     val   |-> Slice(shuffled, n_train, n_train + n_val),
     test  |-> Slice(shuffled, n_train + n_val, Len(shuffled))]

\* _split_stems after the ratio check
_split_stems(st, tr, vr, te, sd, global) ==
    LET shuffled == Shuffle(st, SplitRng(sd, global))
        n == Len(shuffled)
    IN  SplitSlices(shuffled, PyRound(n, tr), PyRound(n, vr))

\* Texts are sequences of characters.  The file name of image i is its stem
\* followed by ".jpg"; the stems are in sorted order.  Stem 0, " a", begins
\* with a blank; the others are free of whitespace.
NL == "\n"

IsSpace(c) == c \in {" ", NL}

StemName(i) == IF i = 0 THEN <<" ", "a">> ELSE <<"s">> \o [j \in 1..i |-> "x"]

RECURSIVE JoinLines(_)
\* "\n".join(rows)
JoinLines(rows) ==
    IF rows = <<>> THEN <<>>
    ELSE IF Len(rows) = 1 THEN rows[1]
    ELSE rows[1] \o <<NL>> \o JoinLines(Tail(rows))

\* path.write_text("\n".join(rows) + "\n"), rows being stems
_write_list(rows) == JoinLines([i \in DOMAIN rows |-> StemName(rows[i])]) \o <<NL>>

\* Of the documents written before the latest one the names and the file
\* names of their images are tracked, not the annotations.  List files are
\* kept whole.
Earlier(files) ==
    [i \in 1..Len(files) |->
        IF "file_names" \in DOMAIN files[i]
        THEN [name |-> files[i].name, file_names |-> files[i].file_names]
        ELSE files[i]]

NoLabel == [exists |-> FALSE, lines |-> <<>>]

\* the converter's variables before (or outside) a conversion
ConvIdle ==
    /\ splitsLeft = 0
    /\ filter = [all |-> TRUE, stems |-> {}]
    /\ imagePaths = <<>>
    /\ imgIdx = 0
    /\ images = <<>>
    /\ annotations = <<>>
    /\ nextAnnId = 0
    /\ curLabel = NoLabel
    /\ lastDecode = "none"

SplitIdle ==
    /\ trainRatio = 0
    /\ valRatio = 0
    /\ testRatio = 0
    /\ seed = 0
    /\ globalRng = 0
    /\ stems = <<>>
    /\ train = <<>>
    /\ val = <<>>
    /\ test = <<>>
    /\ again = <<>>
    /\ globalUsed = FALSE

InitSplit ==
    /\ prog = "split"
    /\ pc = "start"
    /\ dirExists \in BOOLEAN
    /\ imageStems \in SUBSET (1..MaxStems)
    /\ (~dirExists => imageStems = {})
    /\ trainRatio \in Ratios
    /\ valRatio \in Ratios
    /\ testRatio \in Ratios
    /\ seed \in 0..MaxSeed
    /\ globalRng \in 0..(RngMod - 1)
    /\ stems = <<>>
    /\ train = <<>>
    /\ val = <<>>
    /\ test = <<>>
    /\ again = <<>>
    /\ globalUsed = FALSE
    /\ outFiles = <<>>
    /\ ConvIdle

\* main: stems = _collect_image_stems(args.images)
SplitCollect ==
    /\ prog = "split"
    /\ pc = "start"
    /\ stems' = _collect_image_stems(dirExists, imageStems)
    /\ pc' = "collected"
    /\ UNCHANGED <<prog, dirExists, imageStems, trainRatio, valRatio, testRatio,
                   seed, globalRng, train, val, test, again, globalUsed, outFiles, convVars>>

\* main: train, val, test = _split_stems(...); the ValueError ends the run
SplitCall ==
    /\ prog = "split"
    /\ pc = "collected"
    /\ IF RatiosInvalid(trainRatio, valRatio, testRatio)
       THEN /\ pc' = "ValueError"
            /\ UNCHANGED <<train, val, test>>
       ELSE LET r == _split_stems(stems, trainRatio, valRatio, testRatio, seed, globalRng)
            IN  /\ train' = r.train
                /\ val' = r.val
                /\ test' = r.test
                /\ pc' = "write"
    /\ UNCHANGED <<prog, dirExists, imageStems, trainRatio, valRatio, testRatio,
                   seed, globalRng, stems, again, globalUsed, outFiles, convVars>>

SplitFileNames == <<"train.txt", "val.txt", "test.txt", "train_val.txt", "all.txt">>

\* main: the five _write_list calls, in order
SplitWrite ==
    /\ prog = "split"
    /\ pc = "write"
    /\ LET k == Len(outFiles) + 1
           rows == CASE k = 1 -> train
                     [] k = 2 -> val
                     [] k = 3 -> test
                     [] k = 4 -> train \o val
                     [] OTHER -> stems
       IN  /\ outFiles' = Append(outFiles, [name |-> SplitFileNames[k], body |-> _write_list(rows)])
           /\ pc' = IF k = 5 THEN "done" ELSE "write"
    /\ UNCHANGED <<prog, dirExists, imageStems, splitVars, convVars>>

\* some other code of the process draws from the process-wide generator
UseGlobalRandom ==
    /\ prog = "split"
    /\ pc = "done"
    /\ again = <<>>
    /\ globalRng' = RngNext(globalRng)
    /\ globalUsed' = TRUE
    /\ UNCHANGED <<prog, pc, dirExists, imageStems, trainRatio, valRatio, testRatio,
                   seed, stems, train, val, test, again, outFiles, convVars>>

\* a second call of _split_stems with the same arguments
SplitAgain ==
    /\ prog = "split"
    /\ pc = "done"
    /\ again = <<>>
    /\ again' = <<_split_stems(stems, trainRatio, valRatio, testRatio, seed, globalRng)>>
    /\ UNCHANGED <<prog, pc, dirExists, imageStems, trainRatio, valRatio, testRatio,
                   seed, globalRng, stems, train, val, test, globalUsed, outFiles, convVars>>

(***************************************************************************)
(* Label files.  A line is its sequence of whitespace-separated tokens     *)
(* (line.strip().split()); a blank line is the empty sequence.             *)
(***************************************************************************)
LineOk == <<"0", "0.5", "0.5", "0.2", "0.4">>
LineOkFloatClass == <<"1.0", "0.5", "0.5", "0.2", "0.4">>
LineShort == <<"0", "0.5", "0.5", "0.2">>
LineNonNumeric == <<"0", "x", "0.5", "0.2", "0.4">>
LineBlank == <<>>

\* the contents of the label files of the data set
LabelLines ==
    { <<>>,
      <<LineOk>>,
      <<LineOk, LineOk>>,
      <<LineOkFloatClass>>,
      <<LineShort>>,
      <<LineBlank, LineOk>>,
      <<LineNonNumeric, LineOk>>,
      <<LineOk, LineNonNumeric>>,
      <<LineOk, LineShort, LineOk>>,
      <<LineOk, LineNonNumeric, LineOk>> }

LabelFiles == {NoLabel} \cup {[exists |-> TRUE, lines |-> l] : l \in LabelLines}

\* decoded (width, height) of the image files of the data set
Sizes == {<<100, 200>>}

\* float(tok) succeeds
IsFloatTok(tok) == tok \in {"0", "1", "0.2", "0.4", "0.5", "1.0"}

\* int(tok) succeeds
IsIntTok(tok) == tok \in {"0", "1"}

\* float(tok), in tenths
FloatTok(tok) ==
    CASE tok = "0"   -> 0
      [] tok = "0.2" -> 2
      [] tok = "0.4" -> 4
      [] tok = "0.5" -> 5
      [] OTHER       -> 10

Row(cls, parts) ==
    [cls |-> cls, xc |-> FloatTok(parts[2]), yc |-> FloatTok(parts[3]),
     w |-> FloatTok(parts[4]), h |-> FloatTok(parts[5])]

(***************************************************************************)
(* convert_to_coco.py                                                      *)
(***************************************************************************)
\* the loop body of _read_yolo_labels: the rows one line contributes
BatchLineRows(parts) ==
    IF parts = <<>> THEN <<>>
    ELSE IF Len(parts) # 5 THEN <<>>
    ELSE IF \E i \in 1..5 : ~IsFloatTok(parts[i]) THEN <<>>
    ELSE <<Row(FloatTok(parts[1]) \div 10, parts)>>

RECURSIVE BatchRows(_)
BatchRows(lines) ==
    IF lines = <<>> THEN <<>>
    ELSE BatchLineRows(Head(lines)) \o BatchRows(Tail(lines))

_read_yolo_labels(label) ==
    IF ~label.exists THEN <<>> ELSE BatchRows(label.lines)

\* (x, y, width, height) in twentieths of a pixel
_yolo_to_coco_bbox(xc, yc, w, h, width_px, height_px) ==
    LET width == 2 * w * width_px
        height == 2 * h * height_px
    IN  <<(2 * xc * width_px) - (width \div 2),
          (2 * yc * height_px) - (height \div 2),
          width, height>>

\* candidates = sorted(glob("*.jpg")); stems None keeps all of them
_collect_image_paths(exists, names, flt) ==
    LET candidates == IF exists THEN SortedSeq(names) ELSE <<>>
    IN  IF flt.all THEN candidates
        ELSE SelectSeq(candidates, LAMBDA p : p \in flt.stems)

RECURSIVE BatchAnnotationsAnnId(_, _, _, _, _)
\* image_id filled with the annotation's own id
BatchAnnotationsAnnId(rows, img_id, first_id, width, height) ==
    IF rows = <<>> THEN <<>>
    ELSE LET r == Head(rows)
             b == _yolo_to_coco_bbox(r.xc, r.yc, r.w, r.h, width, height)
         IN  <<[id |-> first_id, image_id |-> first_id, category_id |-> 1,
                bbox |-> b, area |-> b[3] * b[4]]>>
             \o BatchAnnotationsAnnId(Tail(rows), img_id, first_id + 1, width, height)

\* the annotations appended for one image, numbered from first_id
RECURSIVE BatchAnnotations(_, _, _, _, _)
BatchAnnotations(rows, img_id, first_id, width, height) ==
    IF rows = <<>> THEN <<>>
    ELSE LET r == Head(rows)
             b == _yolo_to_coco_bbox(r.xc, r.yc, r.w, r.h, width, height)
         IN  <<[id |-> first_id, image_id |-> img_id, category_id |-> 1,
                bbox |-> b, area |-> b[3] * b[4]]>>
             \o BatchAnnotations(Tail(rows), img_id, first_id + 1, width, height)

InitConvert ==
    /\ prog = "convert"
    /\ pc = "start"
    /\ dirExists \in BOOLEAN
    /\ imageStems \in SUBSET (1..MaxImages)
    /\ (~dirExists => imageStems = {})
    /\ SplitIdle
    /\ outFiles = <<>>
    /\ ConvIdle

\* main: args.splits is a list of split names, or empty for one 'all' document
ConvMain ==
    /\ prog = "convert"
    /\ pc = "start"
    /\ \E k \in 0..MaxSplits : splitsLeft' = k
    /\ pc' = "begin"
    /\ UNCHANGED <<prog, dirExists, imageStems, splitVars, outFiles, filter,
                   imagePaths, imgIdx, images, annotations, nextAnnId, curLabel,
                   lastDecode>>

\* main: stems = _read_split_file(...) (or None); convert_to_coco up to the loop
ConvBegin ==
    /\ prog = "convert"
    /\ pc = "begin"
    /\ \E st \in SUBSET (1..MaxImages) :
          filter' = IF splitsLeft = 0 THEN [all |-> TRUE, stems |-> {}]
                    ELSE [all |-> FALSE, stems |-> st]
    /\ imagePaths' = _collect_image_paths(dirExists, imageStems, filter')
    /\ imgIdx' = 1
    /\ images' = <<>>
    /\ annotations' = <<>>
    /\ nextAnnId' = 1
    /\ curLabel' = NoLabel
    /\ lastDecode' = "none"
    /\ pc' = "loop"
    /\ UNCHANGED <<prog, dirExists, imageStems, splitVars, outFiles, splitsLeft>>

\* convert_to_coco: one iteration of the loop over image_paths.  _image_size
\* has no handler: a file PIL cannot decode raises out of convert_to_coco.
ConvImage ==
    /\ prog \in {"convert", "pipeline"}
    /\ pc = "loop"
    /\ imgIdx <= Len(imagePaths)
    /\ \E decodable \in BOOLEAN, size \in Sizes, label \in LabelFiles :
          IF ~decodable
          THEN /\ lastDecode' = "fail"
               /\ pc' = "DecodeError"
               /\ UNCHANGED <<imgIdx, images, annotations, nextAnnId, curLabel>>
          ELSE LET rows == _read_yolo_labels(label)
               IN  /\ lastDecode' = "ok"
                   /\ images' = Append(images, [id |-> imgIdx, file_name |-> imagePaths[imgIdx],
                                                width |-> size[1], height |-> size[2]])
                   /\ annotations' = annotations
                                     \o BatchAnnotations(rows, imgIdx, nextAnnId, size[1], size[2])
                   /\ nextAnnId' = nextAnnId + Len(rows)
                   /\ curLabel' = label
                   /\ imgIdx' = imgIdx + 1
                   /\ pc' = "loop"
    /\ UNCHANGED <<prog, dirExists, imageStems, splitVars, outFiles, splitsLeft,
                   filter, imagePaths>>

\* convert_to_coco: the dump after the loop, and main's next split
ConvDump ==
    /\ prog \in {"convert", "pipeline"}
    /\ pc = "loop"
    /\ imgIdx > Len(imagePaths)
    /\ outFiles' = Append(Earlier(outFiles),
                          [name |-> IF filter.all THEN "all" ELSE "split",
                           file_names |-> [i \in DOMAIN images |-> images[i].file_name],
                           body |-> [images |-> images, annotations |-> annotations]])
    /\ splitsLeft' = IF splitsLeft > 0 THEN splitsLeft - 1 ELSE 0
    /\ pc' = IF splitsLeft > 1 THEN "begin" ELSE "done"
    /\ UNCHANGED <<prog, dirExists, imageStems, splitVars, filter, imagePaths,
                   imgIdx, images, annotations, nextAnnId, curLabel, lastDecode>>

(***************************************************************************)
(* generate_individual_annotations.py                                      *)
(***************************************************************************)
\* unique_id = random_part * 1000 + timestamp
generate_unique_id(random_part, timestamp) == random_part * 1000 + timestamp

\* (random.randint(1000000, 9999999), int(time.time() * 1000) % 1000): the
\* pairs drawn here.  Nothing keeps two calls from drawing the same pair.
IdDraws == {<<1000000, 0>>, <<1000001, 999>>}

UniqueIds == {generate_unique_id(d[1], d[2]) : d \in IdDraws}

\* get_image_info: the decoded size, or 640 x 640 when PIL raises
get_image_info(decodable, size) ==
    IF decodable THEN [width |-> size[1], height |-> size[2]]
    ELSE [width |-> 640, height |-> 640]

\* [x, y, w, h] in twentieths of a pixel
yolo_to_coco_bbox(yolo_bbox, img_width, img_height) ==
    LET x == 2 * yolo_bbox[1] * img_width
        y == 2 * yolo_bbox[2] * img_height
        w == 2 * yolo_bbox[3] * img_width
        h == 2 * yolo_bbox[4] * img_height
    IN  <<x, y, w, h>>

RECURSIVE IndivRows(_)
\* the loop of read_yolo_annotations: int() or float() raising ValueError
\* leaves the loop through the handler around it
IndivRows(lines) ==
    IF lines = <<>> THEN <<>>
    ELSE LET parts == Head(lines)
         IN  IF parts = <<>> \/ Len(parts) # 5 THEN IndivRows(Tail(lines))
             ELSE IF ~IsIntTok(parts[1]) \/ (\E i \in 2..5 : ~IsFloatTok(parts[i]))
                  THEN <<>>
             ELSE <<Row(FloatTok(parts[1]) \div 10, parts)>> \o IndivRows(Tail(lines))

read_yolo_annotations(label) ==
    IF ~label.exists THEN <<>> ELSE IndivRows(label.lines)

\* the annotations of generate_individual_json, ids[i] being the i-th id drawn
IndivAnnotations(rows, image_id, category_id, ids, width, height) ==
    [i \in 1..Len(rows) |->
        LET b == yolo_to_coco_bbox(<<rows[i].xc, rows[i].yc, rows[i].w, rows[i].h>>,
                                   width, height)
        IN  [id |-> ids[i], image_id |-> image_id, category_id |-> category_id,
             bbox |-> b, area |-> b[3] * b[4]]]

\* the orders os.listdir may return the files in
Orders(S) ==
    {s \in [1..Cardinality(S) -> S] : \A i, j \in 1..Cardinality(S) : i # j => s[i] # s[j]}

InitIndividual ==
    /\ prog = "individual"
    /\ pc = "start"
    /\ dirExists \in BOOLEAN
    /\ imageStems \in SUBSET (1..MaxImages)
    /\ (~dirExists => imageStems = {})
    /\ SplitIdle
    /\ outFiles = <<>>
    /\ ConvIdle

\* main: os.makedirs(output_dir) (the images directory), os.listdir
IndivMain ==
    /\ prog = "individual"
    /\ pc = "start"
    /\ dirExists' = TRUE
    /\ imagePaths' \in Orders(imageStems)
    /\ imgIdx' = 1
    /\ pc' = "loop"
    /\ UNCHANGED <<prog, imageStems, splitVars, outFiles, splitsLeft, filter,
                   images, annotations, nextAnnId, curLabel, lastDecode>>

\* main: one iteration, generate_individual_json(image_file, output_dir)
IndivImage ==
    /\ prog = "individual"
    /\ pc = "loop"
    /\ imgIdx <= Len(imagePaths)
    /\ \E decodable \in BOOLEAN, size \in Sizes, label \in LabelFiles,
          image_id \in UniqueIds, category_id \in UniqueIds :
          LET info == get_image_info(decodable, size)
              rows == read_yolo_annotations(label)
          IN  \E ids \in [1..Len(rows) -> UniqueIds] :
                /\ lastDecode' = IF decodable THEN "ok" ELSE "fail"
                /\ images' = <<[id |-> image_id, file_name |-> imagePaths[imgIdx],
                                width |-> info.width, height |-> info.height]>>
                /\ annotations' = IndivAnnotations(rows, image_id, category_id, ids,
                                                   info.width, info.height)
                /\ curLabel' = label
                /\ outFiles' = Append(Earlier(outFiles),
                                      [name |-> imagePaths[imgIdx],
                                       file_names |-> <<imagePaths[imgIdx]>>,
                                       body |-> [images |-> images', annotations |-> annotations']])
    /\ imgIdx' = imgIdx + 1
    /\ UNCHANGED <<prog, pc, dirExists, imageStems, splitVars, splitsLeft, filter,
                   imagePaths, nextAnnId>>

\* main: the loop is over
IndivDone ==
    /\ prog = "individual"
    /\ pc = "loop"
    /\ imgIdx > Len(imagePaths)
    /\ pc' = "done"
    /\ UNCHANGED <<prog, dirExists, imageStems, splitVars, outFiles, convVars>>

(***************************************************************************)
(* generate_splits.py, then convert_to_coco.py --splits train val test on  *)
(* the same, unchanged images directory                                    *)
(***************************************************************************)
RECURSIVE SplitLinesFrom(_, _)
\* str.splitlines(): cur is the line being read
SplitLinesFrom(text, cur) ==
    IF text = <<>> THEN (IF cur = <<>> THEN <<>> ELSE <<cur>>)
    ELSE IF Head(text) = NL THEN <<cur>> \o SplitLinesFrom(Tail(text), <<>>)
    ELSE SplitLinesFrom(Tail(text), Append(cur, Head(text)))

SplitLines(text) == SplitLinesFrom(text, <<>>)

RECURSIVE LStrip(_)
LStrip(line) ==
    IF line # <<>> /\ IsSpace(Head(line)) THEN LStrip(Tail(line)) ELSE line

RECURSIVE RStrip(_)
RStrip(line) ==
    IF line # <<>> /\ IsSpace(line[Len(line)])
    THEN RStrip(SubSeq(line, 1, Len(line) - 1))
    ELSE line

\* str.strip()
Strip(line) == RStrip(LStrip(line))

NonEmpty(line) == line # <<>>

\* [line.strip() for line in path.read_text().splitlines() if line.strip()],
\* and [] for a file that does not exist
_read_split_file(exists, text) ==
    IF ~exists THEN <<>>
    ELSE LET lines == SplitLines(text)
         IN  SelectSeq([i \in DOMAIN lines |-> Strip(lines[i])], NonEmpty)

\* stems is a list, never None: stem_set = set(stems); p.stem in stem_set
SplitFilter(names, read) ==
    [all |-> FALSE, stems |-> {i \in names : StemName(i) \in Range(read)}]

\* (train, val, test) ratios of the runs, in units of 1e-7; the last is invalid
PipelineRatios ==
    { <<8000000, 1000000, 1000000>>,
      <<5000000, 5000000, 0>>,
      <<2000000, 3000000, 5000000>>,
      <<8000000, 1000000, 2000000>> }

InitPipeline ==
    /\ prog = "pipeline"
    /\ pc = "start"
    /\ dirExists \in BOOLEAN
    /\ imageStems \in SUBSET (0..MaxImages)
    /\ (~dirExists => imageStems = {})
    /\ \E r \in PipelineRatios :
          /\ trainRatio = r[1]
          /\ valRatio = r[2]
          /\ testRatio = r[3]
    /\ seed \in 0..MaxSeed
    /\ globalRng = 0
    /\ stems = <<>>
    /\ train = <<>>
    /\ val = <<>>
    /\ test = <<>>
    /\ again = <<>>
    /\ globalUsed = FALSE
    /\ outFiles = <<>>
    /\ ConvIdle

\* generate_splits.main: collect, split, and the five _write_list calls
PipeSplit ==
    /\ prog = "pipeline"
    /\ pc = "start"
    /\ stems' = _collect_image_stems(dirExists, imageStems)
    /\ IF RatiosInvalid(trainRatio, valRatio, testRatio)
       THEN /\ pc' = "ValueError"
            /\ UNCHANGED <<train, val, test, outFiles>>
       ELSE LET r == _split_stems(stems', trainRatio, valRatio, testRatio, seed, globalRng)
            IN  /\ train' = r.train
                /\ val' = r.val
                /\ test' = r.test
                /\ outFiles' = <<[name |-> SplitFileNames[1], body |-> _write_list(r.train)],
                                 [name |-> SplitFileNames[2], body |-> _write_list(r.val)],
                                 [name |-> SplitFileNames[3], body |-> _write_list(r.test)],
                                 [name |-> SplitFileNames[4], body |-> _write_list(r.train \o r.val)],
                                 [name |-> SplitFileNames[5], body |-> _write_list(stems')]>>
                /\ pc' = "split_done"
    /\ UNCHANGED <<prog, dirExists, imageStems, trainRatio, valRatio, testRatio,
                   seed, globalRng, again, globalUsed, convVars>>

PipelineSplits == 3

\* convert_to_coco.main: args.splits = ["train", "val", "test"]
PipeConvMain ==
    /\ prog = "pipeline"
    /\ pc = "split_done"
    /\ splitsLeft' = PipelineSplits
    /\ pc' = "begin"
    /\ UNCHANGED <<prog, dirExists, imageStems, splitVars, outFiles, filter,
                   imagePaths, imgIdx, images, annotations, nextAnnId, curLabel,
                   lastDecode>>

\* main: stems = _read_split_file(split_dir / f"{split}.txt") of the next
\* split; convert_to_coco up to the loop
PipeConvBegin ==
    /\ prog = "pipeline"
    /\ pc = "begin"
    /\ LET k == PipelineSplits + 1 - splitsLeft
       IN  filter' = SplitFilter(imageStems, _read_split_file(TRUE, outFiles[k].body))
    /\ imagePaths' = _collect_image_paths(dirExists, imageStems, filter')
    /\ imgIdx' = 1
    /\ images' = <<>>
    /\ annotations' = <<>>
    /\ nextAnnId' = 1
    /\ curLabel' = NoLabel
    /\ lastDecode' = "none"
    /\ pc' = "loop"
    /\ UNCHANGED <<prog, dirExists, imageStems, splitVars, outFiles, splitsLeft>>

Init == InitSplit \/ InitConvert \/ InitIndividual

NextSplit ==
    \/ SplitCollect
    \/ SplitCall
    \/ SplitWrite
    \/ UseGlobalRandom
    \/ SplitAgain

NextConvert ==
    \/ ConvMain
    \/ ConvBegin
    \/ ConvImage
    \/ ConvDump

NextIndividual ==
    \/ IndivMain
    \/ IndivImage
    \/ IndivDone

NextPipeline ==
    \/ PipeSplit
    \/ PipeConvMain
    \/ PipeConvBegin
    \/ ConvImage
    \/ ConvDump

Next ==
    \/ SplitCollect
    \/ SplitCall
    \/ SplitWrite
    \/ UseGlobalRandom
    \/ SplitAgain
    \/ ConvMain
    \/ ConvBegin
    \/ ConvImage
    \/ ConvDump
    \/ IndivMain
    \/ IndivImage
    \/ IndivDone

\* a run of any of the three programs
Spec == Init /\ [][Next]_vars

\* a run of scripts/generate_splits.py
SpecSplit == InitSplit /\ [][NextSplit]_vars

\* a run of scripts/convert_to_coco.py
SpecConvert == InitConvert /\ [][NextConvert]_vars

\* a run of generate_individual_annotations.py
SpecIndividual == InitIndividual /\ [][NextIndividual]_vars

\* generate_splits.py followed by convert_to_coco.py --splits train val test
SpecPipeline == InitPipeline /\ [][NextPipeline]_vars

(***************************************************************************)
(* Properties                                                              *)
(***************************************************************************)
SplitReturned == prog = "split" /\ pc \in {"write", "done"}

\* C1: the lists _split_stems returns are pairwise disjoint, free of
\* duplicates and cover exactly the input stems, whatever the rounding.
C1_SplitIsPartition ==
    SplitReturned =>
        LET all == train \o val \o test
        IN  /\ NoDup(all)
            /\ Range(all) = Range(stems)
            /\ Len(train) + Len(val) + Len(test) = Len(stems)

\* three non-empty subsets have been returned and written
C1_Witness ==
    /\ prog = "split"
    /\ pc = "done"
    /\ Len(stems) = 3
    /\ train # <<>>
    /\ val # <<>>
    /\ test # <<>>

\* C2: a second call of _split_stems with the same stems, ratios and seed
\* returns the same three lists, whatever was drawn from the process-wide
\* generator in between.
C2_SplitDeterministic ==
    again # <<>> => again[1] = [train |-> train, val |-> val, test |-> test]

\* the second call came after the process-wide generator was used, and the
\* permutation is not the identity
C2_Witness ==
    /\ again # <<>>
    /\ globalUsed
    /\ Len(stems) = 3
    /\ train \o val \o test # stems

\* |train + val + test - 1.0| > 1e-6, in units of 1e-7
SumOffByMoreThanTol ==
    \/ trainRatio + valRatio + testRatio > RatioOne + RatioTol
    \/ trainRatio + valRatio + testRatio < RatioOne - RatioTol

\* C3: with ratios that do not sum to 1.0 within 1e-6 the split run ends in
\* the ValueError: nothing is partitioned and none of the five files is
\* written.
C3_BadRatiosWriteNothing ==
    (prog = "split" /\ SumOffByMoreThanTol) =>
        /\ pc \in {"start", "collected", "ValueError"}
        /\ outFiles = <<>>
        /\ train = <<>> /\ val = <<>> /\ test = <<>>
        /\ again = <<>>

\* the run with ratios (0.8, 0.1, 0.2) over a non-empty directory has failed
C3_Witness ==
    /\ prog = "split"
    /\ pc = "ValueError"
    /\ trainRatio = 8000000 /\ valRatio = 1000000 /\ testRatio = 2000000
    /\ stems # <<>>

\* the documents written so far whose content the model tracks
Docs ==
    {outFiles[i].body : i \in {j \in DOMAIN outFiles :
                                  /\ "body" \in DOMAIN outFiles[j]
                                  /\ "file_names" \in DOMAIN outFiles[j]}}

\* the image processed last and the annotations emitted for it
CurImage == images[Len(images)]

CurAnnotations ==
    IF prog = "convert"
    THEN SelectSeq(annotations, LAMBDA a : a.image_id = Len(images))
    ELSE annotations

ImageProcessed ==
    /\ prog \in {"convert", "individual"}
    /\ lastDecode = "ok"
    /\ images # <<>>

\* a well-formed line: 5 tokens, each of them a number
WellFormed(parts) == Len(parts) = 5 /\ \A i \in 1..5 : IsFloatTok(parts[i])

\* a well-formed line whose class index is written as an integer
WellFormedIntClass(parts) == WellFormed(parts) /\ IsIntTok(parts[1])

\* the box of the claim for a source line on a W x H image, in twentieths
ClaimedBox(parts, W, H) ==
    LET bw == 2 * FloatTok(parts[4]) * W
        bh == 2 * FloatTok(parts[5]) * H
    IN  <<2 * FloatTok(parts[2]) * W - bw \div 2,
          2 * FloatTok(parts[3]) * H - bh \div 2, bw, bh>>

\* C4: every bbox emitted for an image is [cx*W - bw/2, cy*H - bh/2, bw, bh]
\* with bw = w*W, bh = h*H for a box (cx, cy, w, h) of the image's label
\* file, and its area is bw*bh; in the batch converter and in the
\* single-image variant.
C4_BoxIsTopLeft ==
    ImageProcessed =>
        \A i \in DOMAIN CurAnnotations :
            \E k \in DOMAIN curLabel.lines :
                /\ WellFormed(curLabel.lines[k])
                /\ CurAnnotations[i].bbox
                     = ClaimedBox(curLabel.lines[k], CurImage.width, CurImage.height)
                /\ CurAnnotations[i].area
                     = CurAnnotations[i].bbox[3] * CurAnnotations[i].bbox[4]

CountWellFormed(lines) == Cardinality({k \in DOMAIN lines : WellFormed(lines[k])})

CountWellFormedIntClass(lines) ==
    Cardinality({k \in DOMAIN lines : WellFormedIntClass(lines[k])})

\* C5: the annotations emitted for an image are one per well-formed line of
\* its label file; malformed lines are skipped and hide no other line; an
\* image without a label file is emitted with no annotation.  In the batch
\* reader and in the single-image variant's reader.  (A line whose class
\* index is written "1.0" may count as well-formed or not: every line with
\* an integer class index and four numbers yields an annotation, and only
\* lines of five numbers do.)
C5_OnePerWellFormedLine ==
    ImageProcessed =>
        /\ Len(CurAnnotations) >= CountWellFormedIntClass(curLabel.lines)
        /\ Len(CurAnnotations) <= CountWellFormed(curLabel.lines)
        /\ ~curLabel.exists => CurAnnotations = <<>>

\* C6: an image whose dimensions cannot be decoded gets fallback dimensions
\* and the run goes on: the image is emitted and the run is not aborted.
C6_DecodeFailureIsNotFatal ==
    (prog \in {"convert", "individual"} /\ lastDecode = "fail") =>
        /\ pc # "DecodeError"
        /\ images # <<>>

\* C7: in every document convert_to_coco writes the image ids are 1..k in
\* sorted file-name order (so pairwise distinct) and every annotation's
\* image_id is the id of an image of that document.
C7_ImageIdsConsistent ==
    prog = "convert" =>
        \A d \in Docs :
            /\ \A i \in DOMAIN d.images : d.images[i].id = i
            /\ \A i, j \in DOMAIN d.images :
                   i < j => d.images[i].file_name < d.images[j].file_name
            /\ \A i \in DOMAIN d.annotations :
                   \E j \in DOMAIN d.images : d.annotations[i].image_id = d.images[j].id

\* a document of a subset with two images, the first with two annotations
C7_Witness ==
    /\ prog = "convert"
    /\ \E d \in Docs :
          /\ Len(d.images) = 2
          /\ Len(d.annotations) >= 3
          /\ d.annotations[2].image_id = 1
    /\ ~filter.all

\* C8: within one output document no two annotations have the same id: 1..m
\* in the batch converter, restarting at 1 for each subset document, and
\* pairwise distinct synthesized ids in the single-image variant.
C8_AnnotationIdsUnique ==
    \A d \in Docs :
        /\ \A i, j \in DOMAIN d.annotations :
               i # j => d.annotations[i].id # d.annotations[j].id
        /\ prog = "convert" => \A i \in DOMAIN d.annotations : d.annotations[i].id = i

\* C9: when the images directory does not exist the converter writes no
\* document and the split generator none of its list files.
C9_MissingDirWritesNothing ==
    (prog \in {"split", "convert"} /\ ~dirExists) =>
        /\ outFiles = <<>>
        /\ pc # "done"

\* round(num / den) to the nearest integer, ties to the even one
RoundHalfEven(num, den) ==
    LET q == num \div den
    IN  CASE 2 * (num % den) < den -> q
          [] 2 * (num % den) > den -> q + 1
          [] OTHER -> IF q % 2 = 0 THEN q ELSE q + 1

\* C10 as stated: train has exactly round(n*train_ratio) elements, val exactly
\* round(n*val_ratio), test the rest.
C10_ExactRoundedSizes ==
    SplitReturned =>
        /\ Len(train) = RoundHalfEven(Len(stems) * trainRatio, RatioOne)
        /\ Len(val) = RoundHalfEven(Len(stems) * valRatio, RatioOne)
        /\ Len(test) = Len(stems) - Len(train) - Len(val)

\* C10, amended: train is the first min(round(n*train_ratio), n) elements of
\* the seeded permutation, val the next min(round(n*val_ratio), n - len(train))
\* and test all the remaining ones.
C10_ClampedRoundedSizes ==
    SplitReturned =>
        LET n == Len(stems)
        IN  /\ Len(train) = Min(RoundHalfEven(n * trainRatio, RatioOne), n)
            /\ Len(val) = Min(RoundHalfEven(n * valRatio, RatioOne), n - Len(train))
            /\ Len(test) = n - Len(train) - Len(val)
            /\ train \o val \o test = Shuffle(stems, RngSeed(seed))

\* round(n*train_ratio) + round(n*val_ratio) exceeds n: val is cut short
C10_Witness ==
    /\ prog = "split"
    /\ pc = "done"
    /\ Len(stems) = 3
    /\ trainRatio = 5000000 /\ valRatio = 5000000
    /\ Len(train) = 2 /\ Len(val) = 1 /\ test = <<>>

\* the split generator has written its lists
PipeWritten == prog = "pipeline" /\ Len(outFiles) >= 5

\* every stem of the images directory is non-empty and free of whitespace
CleanStems ==
    \A i \in imageStems :
        /\ StemName(i) # <<>>
        /\ \A j \in DOMAIN StemName(i) : StemName(i)[j] \notin {" ", NL}

\* train, val, test of the split, as the stems' names
PipeSubset(k) ==
    LET sub == <<train, val, test>>[k]
    IN  [i \in DOMAIN sub |-> StemName(sub[i])]

\* the images of the document of the k-th split, once it is written
PipeDocWritten(k) == Len(outFiles) >= 5 + k

PipeDocImages(k) == Range(outFiles[5 + k].file_names)

\* reading each list back returns the list that was written; an empty subset
\* is a single newline and reads back as the empty list
PipeListsReadBack ==
    \A k \in 1..PipelineSplits :
        /\ _read_split_file(TRUE, outFiles[k].body) = PipeSubset(k)
        /\ (PipeSubset(k) = <<>> => outFiles[k].body = <<NL>>)

\* a written document holds exactly the images whose stem is in its subset
PipeDocsMatchSubsets ==
    \A k \in 1..PipelineSplits :
        PipeDocWritten(k) =>
            {StemName(i) : i \in PipeDocImages(k)} = Range(PipeSubset(k))

\* every image of the directory is in exactly one of the three documents
PipeEveryImageOnce ==
    \A i \in imageStems :
        Cardinality({k \in 1..PipelineSplits :
                        PipeDocWritten(k) /\ i \in PipeDocImages(k)}) = 1

\* C11: after the split generator wrote its lists for a directory of
\* non-empty, whitespace-free stems and the converter ran with --splits train
\* val test, each list reads back as it was written, each document holds
\* exactly the images of its subset, and every image of the directory is in
\* exactly one of the three documents.
C11_PipelinePartitionsImages ==
    (PipeWritten /\ CleanStems) =>
        /\ PipeListsReadBack
        /\ PipeDocsMatchSubsets
        /\ (pc \in {"done", "DecodeError"} => PipeEveryImageOnce)

\* The same for the runs in which every image of the directory decodes.
PipelineOfDecodableImages ==
    (PipeWritten /\ CleanStems) =>
        /\ PipeListsReadBack
        /\ PipeDocsMatchSubsets
        /\ (pc = "done" => PipeEveryImageOnce)

\* such a run has ended with train empty and val and test not
PipelineCompleted ==
    ~ ( /\ PipeWritten /\ CleanStems
        /\ pc = "done"
        /\ train = <<>> /\ val # <<>> /\ test # <<>> )

\* Without the condition on the stems the lists do not read back.
PipelineOfAnyStems ==
    PipeWritten => PipeListsReadBack

====
